---- MODULE Spec2Model ----
(***************************************************************************)
(* Model of monitors/api/procmonstat.py: the ProcMonStat baseline tracker  *)
(* (add_baseline, calc_baseline, test_stat) and the extract_stat parser.   *)
(*                                                                         *)
(* Numbers (Python floats) are exact rationals <<n, d>> with d > 0 in      *)
(* lowest terms.  A Python dict is a set of <<key, value>> pairs with at   *)
(* most one pair per key.  Text is a sequence of one-character strings.    *)
(***************************************************************************)
EXTENDS Integers, Sequences, FiniteSets, TLC

\* ------------------------------------------------------------------ bounds
\* Longest history a key may reach before add_baseline is no longer offered.
MaxHist == 2
\* Longest history a key may reach in the runs that exercise test_stat.
MaxTestHist == 1
\* Longest text blob, in chunks, offered to extract_stat.
MaxChunks == 3
\* Longest line stream offered to extract_stat.
MaxLines == 3

\* -------------------------------------------------------------- rationals
RECURSIVE GCD(_, _)
GCD(a, b) == IF b = 0 THEN a ELSE GCD(b, a % b)

Abs(n) == IF n < 0 THEN -n ELSE n

\* Lowest-terms form of n/d, d # 0.
Norm(n, d) ==
    LET g == GCD(Abs(n), Abs(d))
        s == IF d < 0 THEN -1 ELSE 1
    IN  <<(s * n) \div g, (s * d) \div g>>

R(n) == <<n, 1>>
RAdd(x, y) == Norm(x[1] * y[2] + y[1] * x[2], x[2] * y[2])
RSub(x, y) == Norm(x[1] * y[2] - y[1] * x[2], x[2] * y[2])
RMul(x, y) == Norm(x[1] * y[1], x[2] * y[2])
\* x / y for y # 0 (the caller raises ZeroDivisionError otherwise).
RDiv(x, y) == Norm(x[1] * y[2], x[2] * y[1])
RAbs(x) == <<Abs(x[1]), x[2]>>
RGt(x, y) == x[1] * y[2] > y[1] * x[2]
RLe(x, y) == x[1] * y[2] <= y[1] * x[2]
RMax2(x, y) == IF RGt(y, x) THEN y ELSE x

\* ------------------------------------------------------------------ dicts
Has(d, k) == \E p \in d : p[1] = k
Get(d, k) == (CHOOSE p \in d : p[1] = k)[2]
Keys(d) == {p[1] : p \in d}
\* every dict with keys drawn from ks and values from vs
Dicts(ks, vs) ==
    UNION {{ {<<k, f[k]>> : k \in s} : f \in [s -> vs] } : s \in SUBSET ks}

\* ------------------------------------------------------- class attributes
FIELD_DESC ==
    [cpu_sec |-> "Total CPU time (sec)",
     total_sec |-> "Total exec time (sec)",
     avg_cpu_percent |-> "Average CPU usage (percent)",
     peak_cpu_percent |-> "Peak CPU usage (percent)",
     avg_rss_size_kib |-> "Average RAM usage (KiB)",
     peak_rss_size_kib |-> "Peak RAM usage (KiB)"]

\* 0.05
DEFAULT_REBASE_THRESHOLD == <<1, 20>>

\* Multiplier of the keys the model configures (both 2.0 in the defaults).
DefaultMultiplier == R(2)

\* Keys a tracker of the model may be configured with.
ConfigKeys == {"cpu_sec", "avg_rss_size_kib"}

\* Iteration orders of the multipliers dict: a Python 2 dict iterates in an
\* order fixed by the hashes of its keys, the same on every pass.
KeyOrders ==
    {o \in UNION {[1..n -> ConfigKeys] : n \in 1..Cardinality(ConfigKeys)} :
        \A i, j \in 1..Len(o) : i # j => o[i] # o[j]}

Range(s) == {s[i] : i \in 1..Len(s)}

\* ------------------------------------------------------------------ state
VARIABLES
    multipliers,      \* self.multipliers: key -> multiplier
    keyOrder,         \* order in which "for k in self.multipliers" visits keys
    alg,              \* self._alg: "MEAN" or "MAX"
    rebase_threshold, \* self.rebase_threshold
    base_stat,        \* self.base_stat: dict key -> baseline value
    base_ready,       \* self.base_ready
    base_history,     \* self._base_history: key -> sequence of values
    ret,              \* outcome of the last call (return value or exception)
    window,           \* samples add_baseline accepted since the last
                      \* calc_baseline call (or construction); kept only
                      \* while clean
    clean             \* no add_baseline call failed since the last
                      \* calc_baseline call (or construction)

vars == <<multipliers, keyOrder, alg, rebase_threshold, base_stat, base_ready,
          base_history, ret, window, clean>>

config == <<multipliers, keyOrder, alg, rebase_threshold>>

NoValue == [pass |-> TRUE, errors |-> <<>>, rebase |-> 0]

Ret(op, exc, msg, arg, value) ==
    [op |-> op, exc |-> exc, msg |-> msg, stat_dict |-> arg, value |-> value,
     kind |-> "", input |-> <<>>, code |-> <<>>]

\* __init__
Init ==
    /\ keyOrder \in KeyOrders
    /\ multipliers = [k \in Range(keyOrder) |-> DefaultMultiplier]
    /\ alg \in {"MAX", "MEAN"}
    /\ rebase_threshold = DEFAULT_REBASE_THRESHOLD
    /\ base_stat = {}
    /\ base_ready = FALSE
    /\ base_history = [k \in Range(keyOrder) |-> <<>>]
    /\ ret = Ret("init", "none", "", {}, NoValue)
    /\ window = <<>>
    /\ clean = TRUE

\* ----------------------------------------------------------- add_baseline
\* Values offered in the samples of add_baseline: 0.0 and 1.0.
HistValues == {R(0), R(1)}
AddSamples == Dicts(ConfigKeys, HistValues)

\* Index in keyOrder of the first configured key missing from stat_dict,
\* or Len(keyOrder) + 1 when none is missing.
FirstMissing(stat_dict) ==
    LET miss == {i \in 1..Len(keyOrder) : ~Has(stat_dict, keyOrder[i])}
    IN  IF miss = {} THEN Len(keyOrder) + 1
        ELSE CHOOSE i \in miss : \A j \in miss : i <= j

\* Position of key k in the iteration order.
Pos(k) == CHOOSE i \in 1..Len(keyOrder) : keyOrder[i] = k

\* The loop appends stat_dict[k] key by key and stops at the first KeyError:
\* the keys visited before the missing one have already been appended to.
HistoryAfterAdd(stat_dict) ==
    LET m == FirstMissing(stat_dict)
    IN  [k \in DOMAIN base_history |->
            IF Pos(k) < m THEN Append(base_history[k], Get(stat_dict, k))
            ELSE base_history[k]]

AddBaseline(stat_dict) ==
    /\ base_history' = HistoryAfterAdd(stat_dict)
    /\ IF FirstMissing(stat_dict) <= Len(keyOrder)
       THEN /\ ret' = Ret("add", "ValueError", "Failed to add baseline: key is missing.",
                          {}, NoValue)
            /\ clean' = FALSE
            /\ window' = <<>>
       ELSE /\ ret' = Ret("add", "none", "", {}, NoValue)
            /\ clean' = clean
            /\ window' = IF clean THEN Append(window, stat_dict) ELSE <<>>
    /\ UNCHANGED <<config, base_stat, base_ready>>

\* add_baseline with an argument that is not a dict
AddBaselineNotDict ==
    /\ ret' = Ret("add", "ValueError", "Stat baseline must be a stat dict.", {}, NoValue)
    /\ UNCHANGED <<config, base_stat, base_ready, base_history, window, clean>>

\* every history is shorter than n
HistBelow(n) == \A k \in DOMAIN base_history : Len(base_history[k]) < n

AddBaselineDict ==
    \E stat_dict \in AddSamples : HistBelow(MaxHist) /\ AddBaseline(stat_dict)

\* add_baseline as offered next to test_stat
AddBaselineTest ==
    \E stat_dict \in AddSamples : HistBelow(MaxTestHist) /\ AddBaseline(stat_dict)

\* ---------------------------------------------------------- calc_baseline
RECURSIVE RSum(_)
RSum(h) == IF h = <<>> THEN R(0) ELSE RAdd(h[1], RSum(Tail(h)))

RECURSIVE MaxOf(_)
\* builtin max of a non-empty sequence
MaxOf(h) == IF Len(h) = 1 THEN h[1] ELSE RMax2(h[1], MaxOf(Tail(h)))

\* statistics.mean of a non-empty sequence
Mean(h) == RDiv(RSum(h), R(Len(h)))

\* Square root of x >= 0, rounded down to hundredths (a float keeps far more
\* digits; no property below depends on them).
RSqrt(x) ==
    LET r == CHOOSE q \in 0..(100 * (x[1] \div x[2] + 1)) :
                 /\ q * q * x[2] <= 10000 * x[1]
                 /\ (q + 1) * (q + 1) * x[2] > 10000 * x[1]
    IN  Norm(r, 100)

\* statistics.stdev (sample standard deviation) of a sequence of n >= 2 values
Stdev(h) ==
    LET m  == Mean(h)
        sq == [i \in 1..Len(h) |-> RMul(RSub(h[i], m), RSub(h[i], m))]
    IN  RSqrt(RDiv(RSum(sq), R(Len(h) - 1)))

Raised(exc) == [exc |-> exc, val |-> R(0)]
Value(v) == [exc |-> "none", val |-> v]

\* Variant of BaselineOf that raises nothing: a history too short for the
\* algorithm yields a default value.
BaselineOfMut(h) ==
    IF alg = "MAX"
    THEN IF h = <<>> THEN Value(R(0)) ELSE Value(MaxOf(h))
    ELSE IF Len(h) = 0 THEN Value(R(0))
    ELSE IF Len(h) < 2 THEN Value(Mean(h))
    ELSE Value(RAdd(Mean(h), RAdd(Stdev(h), Stdev(h))))

\* Outcome of the loop body for one key's history: the baseline value, or the
\* exception raised by max() on an empty list, by statistics.mean on an empty
\* one or by statistics.stdev on fewer than two values (StatisticsError is a
\* ValueError).
BaselineOf(h) ==
    IF alg = "MAX"
    THEN IF h = <<>> THEN Raised("ValueError") ELSE Value(MaxOf(h))
    ELSE IF Len(h) = 0 THEN Raised("ValueError")
    ELSE IF Len(h) < 2 THEN Raised("ValueError")
    ELSE Value(RAdd(Mean(h), RAdd(Stdev(h), Stdev(h))))

\* Index in keyOrder of the first key whose loop body raises, or
\* Len(keyOrder) + 1 when none does.
FirstFailing ==
    LET bad == {i \in 1..Len(keyOrder) :
                    BaselineOf(base_history[keyOrder[i]]).exc # "none"}
    IN  IF bad = {} THEN Len(keyOrder) + 1
        ELSE CHOOSE i \in bad : \A j \in bad : i <= j

\* self.base_stat after the loop has assigned the keys before index f
StatAfterCalc(f) ==
    {p \in base_stat : ~(p[1] \in Range(keyOrder) /\ Pos(p[1]) < f)}
    \cup {<<keyOrder[i], BaselineOf(base_history[keyOrder[i]]).val>> :
            i \in 1..(f - 1)}

\* Variant of ClearedHistory that drops only the oldest sample of each key.
ClearedHistoryMut == [k \in DOMAIN base_history |-> Tail(base_history[k])]

\* History after the clearing loop of a call that did not raise.
ClearedHistory == [k \in DOMAIN base_history |-> <<>>]

CalcBaseline ==
    LET f == FirstFailing
    IN  /\ base_stat' = StatAfterCalc(f)
        /\ IF f <= Len(keyOrder)
           THEN /\ ret' = Ret("calc", "ValueError", "", {}, NoValue)
                /\ UNCHANGED <<base_history, base_ready>>
           ELSE /\ ret' = Ret("calc", "none", "", {}, NoValue)
                /\ base_history' = ClearedHistory
                /\ base_ready' = TRUE
        /\ window' = <<>>
        /\ clean' = TRUE
        /\ UNCHANGED config

\* -------------------------------------------------------------- test_stat
\* Values offered in the samples under test: around the multiplier 2.0 at a
\* baseline of 1.0 they give a ratio below the rebase band (1), inside it
\* below the multiplier (1.96875), on the multiplier (2), on the upper edge
\* of the band (2.05) and above the band (3).  On these values, and on the
\* baselines the histories of the model produce, double arithmetic decides
\* every comparison of test_stat as exact arithmetic does.
TestValues == {R(1), <<63, 32>>, R(2), <<41, 20>>, R(3)}
TestSamples == Dicts(ConfigKeys, TestValues)

\* Variant of Skips that looks at the sample only.
SkipsMut(stat_dict, k) == ~Has(stat_dict, k)

\* "if k not in stat_dict or k not in self.base_stat: continue"
Skips(stat_dict, k) == ~Has(stat_dict, k) \/ ~Has(base_stat, k)

\* Variant of Violates with ">=" for ">".
ViolatesMut(mx, k) == ~RGt(multipliers[k], mx)

\* "if mx > self.multipliers[k]"
Violates(mx, k) == RGt(mx, multipliers[k])

\* Variant of SuggestsRebase with the test as the "elif" of the violation test.
SuggestsRebaseMut(mx, k) ==
    /\ ~RGt(mx, multipliers[k])
    /\ RLe(RAbs(RSub(mx, multipliers[k])), rebase_threshold)

\* "if abs(mx - self.multipliers[k]) <= self.rebase_threshold", tested after
\* and whatever the outcome of the violation test
SuggestsRebase(mx, k) == RLe(RAbs(RSub(mx, multipliers[k])), rebase_threshold)

\* x >= 0 rounded to three decimals, in thousandths ("%.3f")
Round3(x) == (2000 * x[1] + x[2]) \div (2 * x[2])

\* '%s is %.3f%% of baseline' % (self.FIELD_DESC[k], mx * 100)
Message(k, mx) == [desc |-> FIELD_DESC[k], pct |-> Round3(RMul(mx, R(100)))]

\* The loop over self.multipliers from position i on, with the errors and the
\* rebase count gathered so far.  A dict lookup of an absent key raises
\* KeyError, a division by a zero baseline ZeroDivisionError.
RECURSIVE TestLoop(_, _, _, _)
TestLoop(i, stat_dict, errors, suggest_rebase) ==
    IF i > Len(keyOrder)
    THEN [exc |-> "none", errors |-> errors, rebase |-> suggest_rebase]
    ELSE LET k == keyOrder[i]
         IN  IF Skips(stat_dict, k)
             THEN TestLoop(i + 1, stat_dict, errors, suggest_rebase)
             ELSE IF ~Has(stat_dict, k) \/ ~Has(base_stat, k)
             THEN [exc |-> "KeyError", errors |-> <<>>, rebase |-> 0]
             ELSE IF Get(base_stat, k)[1] = 0
             THEN [exc |-> "ZeroDivisionError", errors |-> <<>>, rebase |-> 0]
             ELSE LET mx == RDiv(Get(stat_dict, k), Get(base_stat, k))
                  IN  TestLoop(i + 1, stat_dict,
                               IF Violates(mx, k)
                               THEN Append(errors, Message(k, mx)) ELSE errors,
                               IF SuggestsRebase(mx, k)
                               THEN suggest_rebase + 1 ELSE suggest_rebase)

\* Outcome of test_stat once stat_dict is known:
\* (len(errors) == 0, errors, suggest_rebase), or the exception of the loop.
TestRet(kind, stat_dict) ==
    LET r == TestLoop(1, stat_dict, <<>>, 0)
    IN  [op |-> "test", exc |-> r.exc, msg |-> "", stat_dict |-> stat_dict,
         value |-> [pass |-> Len(r.errors) = 0, errors |-> r.errors,
                    rebase |-> r.rebase],
         kind |-> kind, input |-> <<>>, code |-> <<>>]

\* test_stat(stat_dict)
TestStat(stat_dict) ==
    /\ ret' = TestRet("dict", stat_dict)
    /\ UNCHANGED <<config, base_stat, base_ready, base_history, window, clean>>

TestStatDict == \E stat_dict \in TestSamples : TestStat(stat_dict)

\* ----------------------------------------------------------- extract_stat
STAT_BEGIN_TOKEN == <<"#", " ", "S", "T", "A", "T", "_", "B", "E", "G", "I", "N">>
STAT_END_TOKEN == <<"#", " ", "S", "T", "A", "T", " ", "E", "N", "D">>

NL == <<"\n">>
\* the text "{}": the literal of a stat dict with no fields
DictLiteral == <<"{", "}">>
Noise == <<"x">>

RECURSIVE Concat(_)
\* ''.join(parts)
Concat(parts) == IF parts = <<>> THEN <<>> ELSE parts[1] \o Concat(Tail(parts))

SeqsUpTo(S, n) == UNION {[1..m -> S] : m \in 0..n}

\* str.startswith
StartsWith(s, t) == Len(s) >= Len(t) /\ SubSeq(s, 1, Len(t)) = t

\* Index of the first occurrence of t in s, or 0.
Find(s, t) ==
    LET at == {i \in 1..(Len(s) - Len(t) + 1) : SubSeq(s, i, i + Len(t) - 1) = t}
    IN  IF at = {} THEN 0 ELSE CHOOSE i \in at : \A j \in at : i <= j

\* s.split(t, 1)
Split1(s, t) ==
    LET i == Find(s, t)
    IN  IF i = 0 THEN <<s>>
        ELSE <<SubSeq(s, 1, i - 1), SubSeq(s, i + Len(t), Len(s))>>

RECURSIVE StripComments(_, _)
\* Python source s without its comments ("#" up to the end of the line).
StripComments(s, inComment) ==
    IF s = <<>> THEN <<>>
    ELSE IF s[1] = "\n" THEN <<"\n">> \o StripComments(Tail(s), FALSE)
    ELSE IF inComment \/ s[1] = "#" THEN StripComments(Tail(s), TRUE)
    ELSE <<s[1]>> \o StripComments(Tail(s), FALSE)

RECURSIVE SplitLines(_)
\* s.split('\n')
SplitLines(s) ==
    LET p == Split1(s, NL)
    IN  IF Len(p) = 1 THEN <<s>> ELSE <<p[1]>> \o SplitLines(p[2])

\* eval(code) for code over the characters of the model's inputs: blank and
\* comment lines are ignored; exactly one line holding "{}" gives the empty
\* dict, one holding a name gives NameError, anything else (nothing to
\* evaluate included) is a SyntaxError.
Eval(code) ==
    LET ls  == SplitLines(StripComments(code, FALSE))
        nb  == {i \in 1..Len(ls) : ls[i] # <<>>}
        one == ls[CHOOSE i \in nb : TRUE]
    IN  IF Cardinality(nb) # 1 THEN Raised("SyntaxError")
        ELSE IF one = DictLiteral THEN Value({})
        ELSE IF \A i \in 1..Len(one) : one[i] = "x" THEN Raised("NameError")
        ELSE Raised("SyntaxError")

ExtractRet(kind, input, code, exc, msg, dict) ==
    [op |-> "extract", exc |-> exc, msg |-> msg, stat_dict |-> dict,
     value |-> NoValue, kind |-> kind, input |-> input, code |-> code]

\* "if len(code) == 0: raise ValueError(...)", then "return eval(code)"
Finish(kind, input, code) ==
    IF Len(code) = 0
    THEN ExtractRet(kind, input, code, "ValueError", "No statistical data found.", {})
    ELSE LET e == Eval(code)
         IN  ExtractRet(kind, input, code, e.exc, "", IF e.exc = "none" THEN e.val ELSE {})

\* extract_stat(stdout) for a str
ExtractStr(text) ==
    LET first_split == Split1(text, STAT_BEGIN_TOKEN)
    IN  IF Len(first_split) # 2
        THEN ExtractRet("str", text, <<>>, "ValueError", "Stat begin token not found.", {})
        ELSE Finish("str", text, Split1(first_split[2], STAT_END_TOKEN)[1])

\* Index of the first line from position i on that starts with token t, or
\* Len(lines) + 1.
FirstLine(lines, i, t) ==
    LET at == {j \in i..Len(lines) : StartsWith(lines[j], t)}
    IN  IF at = {} THEN Len(lines) + 1 ELSE CHOOSE j \in at : \A l \in at : j <= l

\* Position at which the second "for line in stdout" starts reading: an
\* iterator (a file object, a generator) goes on after the line the first loop
\* stopped at; a sequence (a list of lines) is iterated afresh from its start.
SecondLoopStart(kind, lines) ==
    IF kind = "iterator" THEN FirstLine(lines, 1, STAT_BEGIN_TOKEN) + 1 ELSE 1

\* extract_stat(stdout) for an iterable of lines
ExtractStream(kind, lines) ==
    LET from == SecondLoopStart(kind, lines)
        to   == FirstLine(lines, from, STAT_END_TOKEN) - 1
    IN  Finish(kind, lines, Concat(SubSeq(lines, from, to)))

Chunks == {STAT_BEGIN_TOKEN, STAT_END_TOKEN, NL, DictLiteral, Noise}
Blobs == {Concat(c) : c \in SeqsUpTo(Chunks, MaxChunks)}

Lines == {STAT_BEGIN_TOKEN \o NL, STAT_END_TOKEN \o NL, DictLiteral \o NL,
          Noise \o NL, NL, Noise \o STAT_BEGIN_TOKEN \o NL}
Streams == SeqsUpTo(Lines, MaxLines)

\* Texts offered to test_stat(stdout=...).
StdoutTexts == {Concat(c) : c \in SeqsUpTo(Chunks, 2)}

\* test_stat(stdout=text): "stat_dict = self.extract_stat(stdout)", whose
\* exception, if any, ends the call; then as for a stat dict.
TestStatStdout ==
    /\ \E text \in StdoutTexts :
          LET e == ExtractStr(text)
          IN  ret' = IF e.exc # "none"
                     THEN [e EXCEPT !.op = "test", !.input = <<>>, !.code = <<>>]
                     ELSE TestRet("str", e.stat_dict)
    /\ UNCHANGED <<config, base_stat, base_ready, base_history, window, clean>>

ExtractStatStr ==
    /\ \E text \in Blobs : ret' = ExtractStr(text)
    /\ UNCHANGED <<config, base_stat, base_ready, base_history, window, clean>>

ExtractStatStream ==
    /\ \E kind \in {"iterator", "list"} : \E lines \in Streams :
          ret' = ExtractStream(kind, lines)
    /\ UNCHANGED <<config, base_stat, base_ready, base_history, window, clean>>

\* extract_stat is a class method: it is exercised next to one tracker built
\* with the default algorithm.
InitExtract == Init /\ alg = "MAX" /\ Len(keyOrder) = 1 /\ keyOrder[1] = "cpu_sec"

Next == AddBaselineDict \/ AddBaselineNotDict \/ CalcBaseline

NextTest ==
    \/ AddBaselineTest
    \/ AddBaselineNotDict
    \/ CalcBaseline
    \/ TestStatDict
    \/ TestStatStdout

NextExtract == ExtractStatStr \/ ExtractStatStream

Spec == Init /\ [][Next]_vars

SpecTest == Init /\ [][NextTest]_vars

SpecExtract == InitExtract /\ [][NextExtract]_vars

\* ================================================================ claims
Configured == Range(keyOrder)

\* C1: an add_baseline call whose mapping lacks a configured key fails and
\* leaves every history exactly as it was (no partial append).
C1_FailedAddLeavesHistories ==
    [][\A sd \in AddSamples :
          (AddBaseline(sd) /\ ~(Configured \subseteq Keys(sd)))
              => (ret'.exc = "ValueError" /\ base_history' = base_history)]_vars

\* Largest k-value among the samples of w (w non-empty, each with key k).
WindowMax(w, k) ==
    LET vs == {Get(w[i], k) : i \in 1..Len(w)}
    IN  CHOOSE v \in vs : \A u \in vs : RLe(u, v)

\* C2: with the max algorithm, when the calls since the previous
\* calc_baseline (or construction) are one or more successful add_baseline
\* calls, a calc_baseline sets the baseline of every configured key to the
\* maximum of that key's values over exactly those samples.
C2_MaxOfSamplesSinceLastCalc ==
    [][(CalcBaseline /\ alg = "MAX" /\ clean /\ Len(window) >= 1)
          => /\ ret'.exc = "none"
             /\ \A k \in Configured :
                   /\ Has(base_stat', k)
                   /\ Get(base_stat', k) = WindowMax(window, k)]_vars

\* Some configured key has too little history for the algorithm.
TooLittleHistory ==
    \E k \in Configured :
        \/ alg = "MAX" /\ Len(base_history[k]) = 0
        \/ alg = "MEAN" /\ Len(base_history[k]) < 2

\* C3: calc_baseline fails whenever some configured key has too little
\* history (none under max, fewer than 2 samples under mean), and so does a
\* calc_baseline issued directly after a successful one.
C3_CalcFailsOnShortHistory ==
    [][(CalcBaseline /\ (TooLittleHistory \/ (ret.op = "calc" /\ ret.exc = "none")))
          => ret'.exc = "ValueError"]_vars

\* C3 witness: a calc_baseline has failed on a tracker that an earlier
\* calc_baseline had made ready and whose histories are empty.
C3_Witness ==
    /\ ret.op = "calc" /\ ret.exc = "ValueError"
    /\ base_ready
    /\ \A k \in Configured : base_history[k] = <<>>

\* C4: right after a successful calc_baseline every history is empty, the
\* tracker is ready and the baseline mapping has an entry for every
\* configured key.
C4_AfterCalcShape ==
    (ret.op = "calc" /\ ret.exc = "none")
        => /\ \A k \in Configured : base_history[k] = <<>>
           /\ base_ready
           /\ Configured \subseteq Keys(base_stat)

\* C4 witness: calc_baseline has succeeded under the mean algorithm (so on
\* histories of at least two samples) for two configured keys.
C4_Witness ==
    /\ ret.op = "calc" /\ ret.exc = "none"
    /\ alg = "MEAN"
    /\ Cardinality(Configured) = 2

\* Keys test_stat compares: configured, in the sample and in the baseline.
Compared(sd) == {k \in Configured : Has(sd, k) /\ Has(base_stat, k)}

\* sample[k] / baseline[k] - multiplier[k], times the positive product of
\* the denominators and of a baseline numerator > 0: its sign is the sign of
\* ratio - multiplier.
Excess(sd, k) ==
    LET s == Get(sd, k)
        b == Get(base_stat, k)
        m == multipliers[k]
    IN  s[1] * b[2] * m[2] - m[1] * s[2] * b[1]

\* the matching positive scale: denominators times the baseline numerator
Scale(sd, k) == Get(sd, k)[2] * Get(base_stat, k)[1] * multipliers[k][2]

\* C5: test_stat returns exactly one message for each compared key whose
\* ratio is strictly greater than its multiplier and no other message, and
\* the pass flag is true iff there is none.
C5_ViolationsExact ==
    (ret.op = "test" /\ ret.kind = "dict" /\ ret.exc = "none")
        => LET sd  == ret.stat_dict
               bad == {k \in Compared(sd) : Excess(sd, k) > 0}
               es  == ret.value.errors
           IN  /\ Len(es) = Cardinality(bad)
               /\ {es[i].desc : i \in 1..Len(es)} = {FIELD_DESC[k] : k \in bad}
               /\ ret.value.pass <=> (bad = {})

\* C5 witness: a test_stat returned one message while another compared key
\* had a ratio exactly on its multiplier.
C5_Witness ==
    /\ ret.op = "test" /\ ret.kind = "dict" /\ ret.exc = "none"
    /\ Len(ret.value.errors) = 1
    /\ \E k \in Compared(ret.stat_dict) : Excess(ret.stat_dict, k) = 0

C7_AbsentKeysSkipped ==
    (ret.op = "test" /\ ret.kind = "dict")
        => LET sd == ret.stat_dict
               es == ret.value.errors
           IN  /\ ret.exc # "none" =>
                     \E k \in Compared(sd) : Get(base_stat, k)[1] = 0
               /\ \A i \in 1..Len(es) :
                     es[i].desc \in {FIELD_DESC[k] : k \in Compared(sd)}
               /\ ret.value.rebase <= Cardinality(Compared(sd))
               /\ base_stat = {} =>
                     /\ ret.exc = "none"
                     /\ ret.value = [pass |-> TRUE, errors |-> <<>>, rebase |-> 0]

\* C7 witness: test_stat ran on a never-finalized tracker with a sample that
\* has every configured key.
C7_Witness ==
    /\ ret.op = "test" /\ ret.kind = "dict"
    /\ ~base_ready /\ base_stat = {}
    /\ Configured \subseteq Keys(ret.stat_dict)

IsWhitespace(s) == \A i \in 1..Len(s) : s[i] \in {"\n", " ", "\t"}

\* C8: extract_stat on a text blob with the begin token and an empty or
\* whitespace-only body before the end token fails with the parse error
\* "No statistical data found." and with no other error.
C8_BlankBodyIsParseError ==
    (ret.op = "extract" /\ ret.kind = "str")
        => LET b     == Find(ret.input, STAT_BEGIN_TOKEN)
               after == SubSeq(ret.input, b + Len(STAT_BEGIN_TOKEN), Len(ret.input))
               e     == Find(after, STAT_END_TOKEN)
           IN  (b # 0 /\ e # 0 /\ IsWhitespace(SubSeq(after, 1, e - 1)))
                  => /\ ret.exc = "ValueError"
                     /\ ret.msg = "No statistical data found."

\* C9: for any line stream with a begin-token line, one-pass or re-iterable,
\* the extracted text is the concatenation of the lines strictly after the
\* first begin-token line and strictly before the next end-token line (or the
\* end of the input).
C9_StreamBodyOnly ==
    (ret.op = "extract" /\ ret.kind \in {"iterator", "list"})
        => LET ls == ret.input
               bs == {i \in 1..Len(ls) : StartsWith(ls[i], STAT_BEGIN_TOKEN)}
               b  == CHOOSE i \in bs : \A j \in bs : i <= j
               es == {i \in (b + 1)..Len(ls) : StartsWith(ls[i], STAT_END_TOKEN)}
               e  == IF es = {} THEN Len(ls) + 1
                     ELSE CHOOSE i \in es : \A j \in es : i <= j
           IN  bs # {} => ret.code = Concat(SubSeq(ls, b + 1, e - 1))

\* C10: a calc_baseline call that raises leaves the baseline mapping, every
\* history and the readiness flag as they were before the call.
C10_FailedCalcChangesNothing ==
    [][(CalcBaseline /\ ret'.exc # "none")
          => /\ base_stat' = base_stat
             /\ base_history' = base_history
             /\ base_ready' = base_ready]_vars
====
